---- MODULE Spec2Model ----
(***************************************************************************)
(* Versioned editing of georeferenced features (geodraft).                 *)
(*                                                                         *)
(* The persisted tables of versioned_editing/models.py are the state; the  *)
(* REST handlers of api_views.py and the services of services.py are the   *)
(* actions.  A table whose rows are referenced is a sequence of rows, the   *)
(* primary key of a row being its index in the sequence.                   *)
(***************************************************************************)
EXTENDS Integers, Sequences, FiniteSets, Bags, TLC

VARIABLES
    branches,       \* table versioned_editing_branch (EditBranch rows)
    versions,       \* table versioned_editing_feature_version (FeatureVersion rows)
    mergeRequests,  \* table versioned_editing_merge_request (MergeRequest rows)
    conflicts,      \* table versioned_editing_conflict (MergeConflict rows)
    auditLog,       \* table versioned_editing_audit_log (AuditLog rows), a bag:
                    \* its rows are never looked up, by key or otherwise
    nextFeatureId,  \* the next value uuid.uuid4() hands out as a feature_id
    result,         \* what the last handler call did and answered
    pc,             \* concurrent requests: the position of each request
    txn,            \* concurrent requests: the locals of each request
    userRoles       \* the user-role table

vars == <<branches, versions, mergeRequests, conflicts, auditLog,
          nextFeatureId, result, pc, txn, userRoles>>

(***************************************************************************)
(* Bounds of the model.                                                    *)
(***************************************************************************)
MaxFeatures == 2     \* feature ids handed out
MaxRows == 3         \* rows of the feature-version table
MaxVersion == 3      \* highest version number written
MaxMergeRequests == 1
MaxBranches == 3     \* rows of the branch table, where branches are created
MaxAudit == 1        \* audit rows of one action kind, for the handlers
                     \* that nothing else bounds

(***************************************************************************)
(* Values.                                                                 *)
(***************************************************************************)
NoBranch == 0
NoRow == 0
NoUser == "nobody"
NoGroup == "nogroup"
NoValue == "null"

\* Users of the hosting platform: a superuser, a user whose profile carries
\* the validator role, and a plain authenticated user.
Users == {"root", "val", "ed"}
is_superuser(u) == u = "root"
profile_role(u) == IF u = "val" THEN "validator" ELSE NoValue

\* Geometries.  line_ab and line_ba are two encodings of the same shape:
\* GEOS equals() compares shapes, not encodings.
Geometries == {"line_ab", "line_ba", "point_c"}
Shape(g) == IF g \in {"line_ab", "line_ba"} THEN "line" ELSE g
geometry_equals(g1, g2) == Shape(g1) = Shape(g2)

Properties == {"p1", "p2"}

STATUS_CHOICES == {"active", "merged", "closed", "deleted"}
MR_STATUS_CHOICES == {"pending", "approved", "rejected", "merged", "conflicts"}

Last(s) == s[Len(s)]

(***************************************************************************)
(* Rows.                                                                   *)
(***************************************************************************)
EditBranch(name, layer, parent, creator, status) ==
    [name |-> name, layer |-> layer, group |-> NoGroup, parent_branch |-> parent,
     created_by |-> creator, status |-> status]

FeatureVersion(b, f, v, g, p, op, d, u) ==
    [branch |-> b, feature_id |-> f, version |-> v, geometry |-> g,
     properties |-> p, operation |-> op, is_deleted |-> d, created_by |-> u]

MergeRequest(sb, tb, status, creator) ==
    [source_branch |-> sb, target_branch |-> tb, status |-> status,
     created_by |-> creator, reviewed_by |-> NoUser, review_comment |-> NoValue]

MergeConflict(m, data) ==
    [merge_request |-> m, feature_id |-> data.feature_id,
     conflict_type |-> data.conflict_type, source_version |-> data.source_version,
     target_version |-> data.target_version, resolved |-> FALSE,
     resolution_strategy |-> NoValue, resolved_geometry |-> NoValue,
     resolved_properties |-> NoValue, resolved_by |-> NoUser]

AuditLog(u, action, etype, eid) ==
    [user |-> u, action |-> action, entity_type |-> etype, entity_id |-> eid]

\* The answer of a handler: which operation ran, for whom, on what, whether
\* it succeeded, the error it answered otherwise, and a count it returned.
Result(op, u, a, b, ok, err, n) ==
    [op |-> op, user |-> u, a |-> a, b |-> b, ok |-> ok, err |-> err, n |-> n]

is_master(br) == br.parent_branch = NoBranch /\ br.name = "master"

\* A row of the role table, unique on (user, group, role).  Outside the role
\* administration the table holds val as validator and ed as editor of g1.
ROLE_CHOICES == {"admin", "validator", "editor"}

UserRole(u, group, role) ==
    [user |-> u, group |-> group, role |-> role,
     can_approve_merges |-> role \in {"validator", "admin"},
     can_manage_branches |-> TRUE]

UserRoles == {UserRole("val", "g1", "validator"), UserRole("ed", "g1", "editor")}

(***************************************************************************)
(* Version ledger: the latest version of each feature of a branch.         *)
(***************************************************************************)
RowsOf(vs, b) == {i \in DOMAIN vs : vs[i].branch = b}

FeaturesIn(vs, b) == {vs[i].feature_id : i \in RowsOf(vs, b)}

RowsOfFeature(vs, b, f) == {i \in RowsOf(vs, b) : vs[i].feature_id = f}

MaxVersionOf(vs, b, f) ==
    LET vrs == {vs[i].version : i \in RowsOfFeature(vs, b, f)}
    IN CHOOSE v \in vrs : \A w \in vrs : w <= v

\* The rows order_by('-version').first() may return: with several rows at
\* the highest version number the database is free to return any of them.
FirstByVersionDesc(vs, b, f) ==
    {i \in RowsOfFeature(vs, b, f) : vs[i].version = MaxVersionOf(vs, b, f)}

\* _get_latest_features: feature_id -> primary key of the row kept for it,
\* one function per outcome the ordered query can produce.
get_latest_features(vs, b) ==
    {m \in [FeaturesIn(vs, b) -> DOMAIN vs] :
        \A f \in FeaturesIn(vs, b) : m[f] \in FirstByVersionDesc(vs, b, f)}

(***************************************************************************)
(* Conflict detector.                                                      *)
(***************************************************************************)
\* A classification that looks for a deleted source only.
detect_conflict_type_source_only(sv, tv) ==
    IF sv.version = 1 /\ tv.version = 1 THEN NoValue
    ELSE IF sv.version > 1 /\ tv.version > 1
            /\ (~geometry_equals(sv.geometry, tv.geometry) \/ sv.properties # tv.properties)
         THEN IF ~geometry_equals(sv.geometry, tv.geometry) /\ sv.properties # tv.properties
              THEN "BOTH"
              ELSE IF ~geometry_equals(sv.geometry, tv.geometry) THEN "GEOMETRY"
              ELSE "PROPERTIES"
    ELSE IF sv.is_deleted /\ tv.version > 1 /\ ~tv.is_deleted THEN "DELETE"
    ELSE NoValue

detect_conflict_type(sv, tv) ==
    IF sv.version = 1 /\ tv.version = 1 THEN NoValue
    ELSE IF sv.version > 1 /\ tv.version > 1
            /\ (~geometry_equals(sv.geometry, tv.geometry) \/ sv.properties # tv.properties)
         THEN IF ~geometry_equals(sv.geometry, tv.geometry) /\ sv.properties # tv.properties
              THEN "BOTH"
              ELSE IF ~geometry_equals(sv.geometry, tv.geometry) THEN "GEOMETRY"
              ELSE "PROPERTIES"
    ELSE IF sv.is_deleted /\ tv.version > 1 /\ ~tv.is_deleted THEN "DELETE"
    ELSE IF tv.is_deleted /\ sv.version > 1 /\ ~sv.is_deleted THEN "DELETE"
    ELSE NoValue

\* detect_conflicts for one outcome (sf, tf) of the two latest-feature
\* queries: the conflict data of each feature, in feature_id order.
RECURSIVE DetectLoop(_, _, _, _, _)
DetectLoop(vs, sf, tf, f, hi) ==
    IF f > hi THEN <<>>
    ELSE LET here ==
                 IF f \in DOMAIN sf /\ f \in DOMAIN tf
                    /\ detect_conflict_type(vs[sf[f]], vs[tf[f]]) # NoValue
                 THEN <<[feature_id |-> f,
                         conflict_type |-> detect_conflict_type(vs[sf[f]], vs[tf[f]]),
                         source_version |-> sf[f],
                         target_version |-> tf[f]]>>
                 ELSE <<>>
         IN here \o DetectLoop(vs, sf, tf, f + 1, hi)

\* A detector that reports nothing.
detect_conflicts_none(vs, sf, tf) == <<>>

detect_conflicts(vs, sf, tf) == DetectLoop(vs, sf, tf, 1, MaxFeatures)

(***************************************************************************)
(* Merge engine.                                                           *)
(***************************************************************************)
versions_equal(v1, v2) ==
    geometry_equals(v1.geometry, v2.geometry) /\ v1.properties = v2.properties

\* A merged row that is always numbered 1.
create_merged_version_unnumbered(vs, sv, tb) ==
    Append(vs, [branch |-> tb, feature_id |-> sv.feature_id, version |-> 1,
                geometry |-> sv.geometry, properties |-> sv.properties,
                operation |-> "MERGE", is_deleted |-> FALSE, created_by |-> sv.created_by])

\* A merged row that is written to the branch of the source row.
create_merged_version_in_source(vs, sv, tb) ==
    Append(vs, FeatureVersion(sv.branch, sv.feature_id,
                              MaxVersionOf(vs, sv.branch, sv.feature_id) + 1,
                              sv.geometry, sv.properties, "MERGE", FALSE, sv.created_by))

\* A merged row that carries the properties p1 whatever the source holds.
create_merged_version_plain(vs, sv, tb) ==
    LET next_version == IF RowsOfFeature(vs, tb, sv.feature_id) = {} THEN 1
                        ELSE MaxVersionOf(vs, tb, sv.feature_id) + 1
    IN Append(vs, FeatureVersion(tb, sv.feature_id, next_version, sv.geometry,
                                 "p1", "MERGE", FALSE, sv.created_by))

\* _create_merged_version: the table with the merged row appended.
create_merged_version(vs, sv, tb) ==
    LET next_version == IF RowsOfFeature(vs, tb, sv.feature_id) = {} THEN 1
                        ELSE MaxVersionOf(vs, tb, sv.feature_id) + 1
    IN Append(vs, FeatureVersion(tb, sv.feature_id, next_version, sv.geometry,
                                 sv.properties, "MERGE", FALSE, sv.created_by))

\* A loop that writes only when the source row carries the higher number.
merge_writes_if_newer(vs, sv, tf) ==
    /\ ~sv.is_deleted
    /\ IF sv.feature_id \in DOMAIN tf
       THEN sv.version > vs[tf[sv.feature_id]].version
       ELSE TRUE

\* A loop that does not skip deleted source rows.
merge_writes_deleted_too(vs, sv, tf) ==
    IF sv.feature_id \in DOMAIN tf
    THEN sv.version > vs[tf[sv.feature_id]].version
         \/ ~versions_equal(sv, vs[tf[sv.feature_id]])
    ELSE TRUE

\* Whether the loop of merge_branches writes a version for a source row.
merge_writes(vs, sv, tf) ==
    /\ ~sv.is_deleted
    /\ IF sv.feature_id \in DOMAIN tf
       THEN sv.version > vs[tf[sv.feature_id]].version
            \/ ~versions_equal(sv, vs[tf[sv.feature_id]])
       ELSE TRUE

\* The loop of merge_branches over the source's latest features (sf), in
\* feature_id order, against the target's latest features (tf) read before
\* the loop: the table after the writes.
RECURSIVE MergeLoop(_, _, _, _, _, _)
MergeLoop(vs, sf, tf, tb, f, hi) ==
    IF f > hi THEN vs
    ELSE IF f \in DOMAIN sf /\ merge_writes(vs, vs[sf[f]], tf)
         THEN MergeLoop(create_merged_version(vs, vs[sf[f]], tb), sf, tf, tb, f + 1, hi)
         ELSE MergeLoop(vs, sf, tf, tb, f + 1, hi)

\* A block that keeps its writes when an exception leaves it.
transaction_not_rolled_back(before, after, raised) == after

\* @transaction.atomic: what is persisted when the block ends.
transaction_atomic(before, after, raised) == IF raised THEN before ELSE after

\* merge_branches for one outcome (sf, tf) of its two reads.  failAt = k > 0
\* makes the k-th write raise (a database error); 0 lets all writes through.
merge_branches(vs, sf, tf, tb, failAt) ==
    LET full == MergeLoop(vs, sf, tf, tb, 1, MaxFeatures)
        merged_count == Len(full) - Len(vs)
        raised == failAt \in 1..merged_count
        reached == IF raised THEN SubSeq(full, 1, Len(vs) + failAt - 1) ELSE full
    IN [table |-> transaction_atomic(vs, reached, raised),
        merged_count |-> merged_count,
        raised |-> raised]

\* The bounds of the model hold of a feature-version table.
WithinBounds(vs) ==
    /\ Len(vs) <= MaxRows
    /\ \A i \in DOMAIN vs : vs[i].version <= MaxVersion

(***************************************************************************)
(* FeatureVersionViewSet.                                                  *)
(***************************************************************************)
\* get_queryset + get_object: the row a request for primary key pk obtains.
\* Deleted rows are filtered out unless include_deleted=true is given.
feature_get_object(vs, pk, include_deleted) ==
    IF pk \in DOMAIN vs /\ (include_deleted \/ ~vs[pk].is_deleted) THEN pk ELSE NoRow

\* POST /features/ : perform_create.
FeatureCreate(u, b, g, p, d) ==
    /\ b \in DOMAIN branches
    /\ nextFeatureId <= MaxFeatures
    /\ Len(versions) < MaxRows
    /\ versions' = Append(versions, FeatureVersion(b, nextFeatureId, 1, g, p, "CREATE", d, u))
    /\ nextFeatureId' = nextFeatureId + 1
    /\ auditLog' = auditLog (+) SetToBag({AuditLog(u, "CREATE_FEATURE", "feature", Len(versions) + 1)})
    /\ result' = Result("create_feature", u, Len(versions) + 1, b, TRUE, NoValue, 1)
    /\ UNCHANGED <<userRoles, branches, mergeRequests, conflicts, pc, txn>>

\* PUT/PATCH /features/<pk>/ : UpdateModelMixin.update hands perform_update a
\* serializer bound to the stored row, so serializer.save() writes the
\* validated data and the keyword arguments into that row.
FeatureUpdate(u, pk, include_deleted, b, g, p, d) ==
    /\ pk \in 1..MaxRows
    /\ b \in DOMAIN branches
    /\ IF feature_get_object(versions, pk, include_deleted) = NoRow
       THEN /\ result' = Result("update_feature", u, pk, NoBranch, FALSE, "not_found", 0)
            /\ UNCHANGED <<versions, auditLog>>
       ELSE LET old_feature == versions[pk]
            IN /\ old_feature.version < MaxVersion
               /\ versions' = [versions EXCEPT ![pk] =
                      FeatureVersion(b, old_feature.feature_id, old_feature.version + 1,
                                     g, p, "UPDATE", d, u)]
               /\ auditLog' = auditLog (+) SetToBag({AuditLog(u, "UPDATE_FEATURE", "feature", pk)})
               /\ result' = Result("update_feature", u, pk, b, TRUE, NoValue, 1)
    /\ UNCHANGED <<userRoles, branches, mergeRequests, conflicts, nextFeatureId, pc, txn>>

\* DELETE /features/<pk>/soft_delete/ .
FeatureSoftDelete(u, pk, include_deleted) ==
    /\ pk \in 1..MaxRows
    /\ IF feature_get_object(versions, pk, include_deleted) = NoRow
       THEN /\ result' = Result("delete_feature", u, pk, NoBranch, FALSE, "not_found", 0)
            /\ UNCHANGED <<versions, auditLog>>
       ELSE LET feature == versions[pk]
            IN /\ feature.version < MaxVersion
               /\ Len(versions) < MaxRows
               /\ versions' = Append(versions,
                      FeatureVersion(feature.branch, feature.feature_id, feature.version + 1,
                                     feature.geometry, feature.properties, "DELETE", TRUE, u))
               /\ auditLog' = auditLog (+) SetToBag({AuditLog(u, "DELETE_FEATURE", "feature", Len(versions) + 1)})
               /\ result' = Result("delete_feature", u, pk, feature.branch, TRUE, NoValue, 1)
    /\ UNCHANGED <<userRoles, branches, mergeRequests, conflicts, nextFeatureId, pc, txn>>

\* MergeService().merge_branches(source, target), called as a service.  The
\* outcome records the merged count it returns or, when it raises, the
\* number of the write that raised.
MergeBranches(sb, tb, failAt) ==
    /\ sb \in DOMAIN branches /\ tb \in DOMAIN branches
    /\ \E sf \in get_latest_features(versions, sb), tf \in get_latest_features(versions, tb) :
         LET m == merge_branches(versions, sf, tf, tb, failAt)
         IN /\ WithinBounds(m.table)
            /\ versions' = m.table
            /\ result' = Result("merge", NoUser, sb, tb, ~m.raised,
                                IF m.raised THEN "merge" ELSE NoValue,
                                IF m.raised THEN failAt ELSE m.merged_count)
    /\ UNCHANGED <<userRoles, branches, mergeRequests, conflicts, auditLog, nextFeatureId, pc, txn>>

\* The audit rows of one action kind.
AuditCount(log, action) ==
    LET evs == {e \in BagToSet(log) : e.action = action}
    IN IF evs = {} THEN 0 ELSE BagCardinality([e \in evs |-> log[e]])

(***************************************************************************)
(* EditBranchViewSet.                                                      *)
(***************************************************************************)
\* DELETE /branches/<b>/soft_delete/ .
BranchSoftDelete(u, b) ==
    /\ b \in DOMAIN branches
    /\ IF branches[b].created_by # u /\ ~is_superuser(u)
       THEN /\ result' = Result("delete_branch", u, b, NoBranch, FALSE, "forbidden", 0)
            /\ UNCHANGED <<branches, auditLog>>
       ELSE IF is_master(branches[b])
       THEN /\ result' = Result("delete_branch", u, b, NoBranch, FALSE, "bad_request", 0)
            /\ UNCHANGED <<branches, auditLog>>
       ELSE /\ AuditCount(auditLog, "DELETE_BRANCH") < MaxAudit
            /\ branches' = [branches EXCEPT ![b].status = "deleted"]
            /\ auditLog' = auditLog (+) SetToBag({AuditLog(u, "DELETE_BRANCH", "branch", b)})
            /\ result' = Result("delete_branch", u, b, NoBranch, TRUE, NoValue, 0)
    /\ UNCHANGED <<userRoles, versions, mergeRequests, conflicts, nextFeatureId, pc, txn>>

\* unique_together (layer, name, created_by) of the branch table.
branch_unique(brs, b, name, layer) ==
    \A o \in DOMAIN brs \ {b} :
        ~(brs[o].layer = layer /\ brs[o].name = name /\ brs[o].created_by = brs[b].created_by)

\* PUT/PATCH /branches/<b>/ : the update ModelViewSet provides; the
\* serializer lets name, layer, parent_branch and status be written.
BranchUpdate(u, b, name, layer, parent, status) ==
    /\ b \in DOMAIN branches
    /\ parent \in DOMAIN branches \cup {NoBranch}
    /\ status \in STATUS_CHOICES
    /\ IF ~branch_unique(branches, b, name, layer)
       THEN /\ result' = Result("update_branch", u, b, NoBranch, FALSE, "integrity", 0)
            /\ UNCHANGED branches
       ELSE /\ branches' = [branches EXCEPT ![b].name = name, ![b].layer = layer,
                                            ![b].parent_branch = parent, ![b].status = status]
            /\ result' = Result("update_branch", u, b, NoBranch, TRUE, NoValue, 0)
    /\ UNCHANGED <<userRoles, versions, mergeRequests, conflicts, auditLog, nextFeatureId, pc, txn>>

(***************************************************************************)
(* Conflict resolution.                                                    *)
(***************************************************************************)
\* services.py imports transaction, GEOSGeometry, the models and logging:
\* the name timezone that resolve_conflict reads is not defined.
timezone_defined == FALSE

\* A resolver that marks the conflict resolved before it refuses the call.
resolve_conflict_marking_first(vs, c, strategy, u, manual_geometry, manual_properties) ==
    [raised |-> "ValueError",
     saved |-> [c EXCEPT !.resolution_strategy = strategy, !.resolved = TRUE,
                         !.resolved_by = u]]

\* ConflictResolver.resolve_conflict on a conflict row: the exception it
\* raises (NoValue when none) and the row conflict.save() persists.
resolve_conflict(vs, c, strategy, u, manual_geometry, manual_properties) ==
    LET refused ==
            \/ strategy \notin {"SOURCE", "TARGET", "MANUAL"}
            \/ strategy = "MANUAL" /\ (manual_geometry = NoValue \/ manual_properties = NoValue)
        geom == IF strategy = "SOURCE" THEN vs[c.source_version].geometry
                ELSE IF strategy = "TARGET"
                     THEN IF c.target_version # NoRow THEN vs[c.target_version].geometry
                          ELSE NoValue
                ELSE manual_geometry
        props == IF strategy = "SOURCE" THEN vs[c.source_version].properties
                 ELSE IF strategy = "TARGET"
                      THEN IF c.target_version # NoRow THEN vs[c.target_version].properties
                           ELSE "empty"
                 ELSE manual_properties
    IN IF refused THEN [raised |-> "ValueError", saved |-> c]
       ELSE IF ~timezone_defined THEN [raised |-> "NameError", saved |-> c]
       ELSE [raised |-> NoValue,
             saved |-> [c EXCEPT !.resolved_geometry = geom, !.resolved_properties = props,
                                 !.resolution_strategy = strategy, !.resolved = TRUE,
                                 !.resolved_by = u]]

\* A call of ConflictResolver().resolve_conflict on stored conflict c; the
\* outcome records the arguments of the call.
ResolveConflict(u, c, strategy, manual_geometry, manual_properties) ==
    /\ c \in DOMAIN conflicts
    /\ LET r == resolve_conflict(versions, conflicts[c], strategy, u,
                                 manual_geometry, manual_properties)
       IN /\ conflicts' = [conflicts EXCEPT ![c] = r.saved]
          /\ result' = Result("resolve_conflict", u, c, NoBranch, r.raised = NoValue, r.raised,
                              [resolution_strategy |-> strategy,
                               manual_geometry |-> manual_geometry,
                               manual_properties |-> manual_properties])
    /\ UNCHANGED <<userRoles, branches, versions, mergeRequests, auditLog, nextFeatureId, pc, txn>>

\* The change form of MergeConflictAdmin, open to staff: resolved is an
\* editable field of it.
ConflictAdminChange(u, c, resolved) ==
    /\ c \in DOMAIN conflicts
    /\ is_superuser(u)
    /\ conflicts' = [conflicts EXCEPT ![c].resolved = resolved]
    /\ result' = Result("admin_change_conflict", u, c, NoBranch, TRUE, NoValue, 0)
    /\ UNCHANGED <<userRoles, branches, versions, mergeRequests, auditLog, nextFeatureId, pc, txn>>

(***************************************************************************)
(* MergeRequestViewSet.                                                    *)
(***************************************************************************)
\* MergeRequestSerializer.validate.
merge_request_valid(brs, sb, tb) == sb # tb /\ brs[sb].layer = brs[tb].layer

\* POST /merge-requests/ : perform_create.
MergeRequestCreate(u, sb, tb) ==
    /\ sb \in DOMAIN branches /\ tb \in DOMAIN branches
    /\ IF ~merge_request_valid(branches, sb, tb)
       THEN /\ result' = Result("create_merge_request", u, sb, tb, FALSE, "validation", 0)
            /\ UNCHANGED <<mergeRequests, conflicts, auditLog>>
       ELSE /\ Len(mergeRequests) < MaxMergeRequests
            /\ \E sf \in get_latest_features(versions, sb),
                  tf \in get_latest_features(versions, tb) :
                 LET found == detect_conflicts(versions, sf, tf)
                     m == Len(mergeRequests) + 1
                 IN /\ mergeRequests' = Append(mergeRequests,
                           MergeRequest(sb, tb, IF found # <<>> THEN "conflicts" ELSE "pending", u))
                    /\ conflicts' = conflicts \o
                           [i \in 1..Len(found) |-> MergeConflict(m, found[i])]
                    /\ auditLog' = auditLog (+)
                           SetToBag({AuditLog(u, "CREATE_MERGE_REQUEST", "merge_request", m)})
                    /\ result' = Result("create_merge_request", u, sb, tb, TRUE, NoValue,
                                        Len(found))
    /\ UNCHANGED <<userRoles, branches, versions, nextFeatureId, pc, txn>>

\* A check that every user passes.
can_approve_anyone(u) == TRUE

\* _can_approve of the view set.
can_approve(u) == is_superuser(u) \/ profile_role(u) \in {"validator", "admin"}

\* The count without its resolved=False filter.
unresolved_conflicts_of_resolved(cs, m) ==
    Cardinality({c \in DOMAIN cs : cs[c].merge_request = m /\ cs[c].resolved})

\* merge_request.conflicts.filter(resolved=False).count()
unresolved_conflicts(cs, m) ==
    Cardinality({c \in DOMAIN cs : cs[c].merge_request = m /\ ~cs[c].resolved})

\* The statements of approve's try block, in order; a failure of one of them
\* (a database error) ends the block there.
ApproveFailures == {"none", "merge", "mr_save", "branch_save", "audit"}

\* An approve that writes, for a feature with a resolved conflict, the
\* resolved geometry and properties of the conflict.
Approve_applying_resolutions(u, m, fail) ==
    /\ m \in DOMAIN mergeRequests
    /\ can_approve(u)
    /\ unresolved_conflicts(conflicts, m) = 0
    /\ LET mr == mergeRequests[m]
       IN \E sf \in get_latest_features(versions, mr.source_branch),
             tf \in get_latest_features(versions, mr.target_branch) :
            LET full == MergeLoop(versions, sf, tf, mr.target_branch, 1, MaxFeatures)
                of(f) == {c \in DOMAIN conflicts :
                             /\ conflicts[c].merge_request = m
                             /\ conflicts[c].feature_id = f
                             /\ conflicts[c].resolution_strategy # NoValue}
                applied == [i \in DOMAIN full |->
                              IF i > Len(versions) /\ of(full[i].feature_id) # {}
                              THEN LET c == CHOOSE c \in of(full[i].feature_id) : TRUE
                                   IN [full[i] EXCEPT
                                         !.geometry = conflicts[c].resolved_geometry,
                                         !.properties = conflicts[c].resolved_properties]
                              ELSE full[i]]
            IN /\ WithinBounds(full)
               /\ versions' = applied
               /\ mergeRequests' = [mergeRequests EXCEPT ![m].status = "merged",
                                                         ![m].reviewed_by = u]
               /\ branches' = [branches EXCEPT ![mr.source_branch].status = "merged"]
               /\ auditLog' = auditLog (+) SetToBag({AuditLog(u, "APPROVE_MERGE_REQUEST",
                                                              "merge_request", m)})
               /\ result' = Result("approve", u, m, NoBranch, TRUE, NoValue,
                                   Len(full) - Len(versions))
    /\ UNCHANGED <<userRoles, conflicts, nextFeatureId, pc, txn>>

\* POST /merge-requests/<m>/approve/ .  fail names the statement that raises.
Approve(u, m, fail) ==
    /\ m \in DOMAIN mergeRequests
    /\ fail \in ApproveFailures
    /\ LET mr == mergeRequests[m]
       IN IF ~can_approve(u)
          THEN /\ result' = Result("approve", u, m, NoBranch, FALSE, "forbidden", 0)
               /\ UNCHANGED <<branches, versions, mergeRequests, auditLog>>
          ELSE IF unresolved_conflicts(conflicts, m) > 0
          THEN /\ result' = Result("approve", u, m, NoBranch, FALSE, "unresolved", 0)
               /\ UNCHANGED <<branches, versions, mergeRequests, auditLog>>
          ELSE \E sf \in get_latest_features(versions, mr.source_branch),
                  tf \in get_latest_features(versions, mr.target_branch) :
                 LET mg == merge_branches(versions, sf, tf, mr.target_branch,
                                          IF fail = "merge" THEN 1 ELSE 0)
                     failed == IF mg.raised THEN "merge"
                               ELSE IF fail = "merge" THEN "none" ELSE fail
                 IN /\ WithinBounds(MergeLoop(versions, sf, tf, mr.target_branch,
                                              1, MaxFeatures))
                    /\ failed = "none" =>
                           AuditCount(auditLog, "APPROVE_MERGE_REQUEST") < MaxAudit
                    /\ versions' = mg.table
                    /\ mergeRequests' =
                           IF failed \in {"merge", "mr_save"} THEN mergeRequests
                           ELSE [mergeRequests EXCEPT ![m].status = "merged",
                                                      ![m].reviewed_by = u]
                    /\ branches' =
                           IF failed \in {"merge", "mr_save", "branch_save"} THEN branches
                           ELSE [branches EXCEPT ![mr.source_branch].status = "merged"]
                    /\ auditLog' =
                           IF failed # "none" THEN auditLog
                           ELSE auditLog (+) SetToBag({AuditLog(u, "APPROVE_MERGE_REQUEST",
                                                                "merge_request", m)})
                    /\ result' = Result("approve", u, m, NoBranch, failed = "none",
                                        IF failed = "none" THEN NoValue ELSE failed,
                                        IF mg.raised THEN 0 ELSE mg.merged_count)
    /\ UNCHANGED <<userRoles, conflicts, nextFeatureId, pc, txn>>

\* A reject that also closes the source branch.
Reject_closing_source(u, m, comment) ==
    /\ m \in DOMAIN mergeRequests
    /\ can_approve(u)
    /\ AuditCount(auditLog, "REJECT_MERGE_REQUEST") < MaxAudit
    /\ mergeRequests' = [mergeRequests EXCEPT ![m].status = "rejected",
                                              ![m].reviewed_by = u,
                                              ![m].review_comment = comment]
    /\ branches' = [branches EXCEPT ![mergeRequests[m].source_branch].status = "closed"]
    /\ auditLog' = auditLog (+)
           SetToBag({AuditLog(u, "REJECT_MERGE_REQUEST", "merge_request", m)})
    /\ result' = Result("reject", u, m, NoBranch, TRUE, NoValue, 0)
    /\ UNCHANGED <<userRoles, versions, conflicts, nextFeatureId, pc, txn>>

\* POST /merge-requests/<m>/reject/ .
Reject(u, m, comment) ==
    /\ m \in DOMAIN mergeRequests
    /\ IF ~can_approve(u)
       THEN /\ result' = Result("reject", u, m, NoBranch, FALSE, "forbidden", 0)
            /\ UNCHANGED <<mergeRequests, auditLog>>
       ELSE /\ AuditCount(auditLog, "REJECT_MERGE_REQUEST") < MaxAudit
            /\ mergeRequests' = [mergeRequests EXCEPT ![m].status = "rejected",
                                                      ![m].reviewed_by = u,
                                                      ![m].review_comment = comment]
            /\ auditLog' = auditLog (+)
                   SetToBag({AuditLog(u, "REJECT_MERGE_REQUEST", "merge_request", m)})
            /\ result' = Result("reject", u, m, NoBranch, TRUE, NoValue, 0)
    /\ UNCHANGED <<userRoles, branches, versions, conflicts, nextFeatureId, pc, txn>>

(***************************************************************************)
(* Specification: the handlers, each running alone from start to end.      *)
(***************************************************************************)
\* The layer-created hook has made the layer's master branch (owner root)
\* and user ed has created one branch from it.
InitBranches ==
    <<EditBranch("master", 1, NoBranch, "root", "active"),
      EditBranch("edit", 1, 1, "ed", "active")>>

Init ==
    /\ branches = InitBranches
    /\ versions = <<>>
    /\ mergeRequests = <<>>
    /\ conflicts = <<>>
    /\ auditLog = SetToBag({AuditLog("ed", "CREATE_BRANCH", "branch", 2)})
    /\ nextFeatureId = 1
    /\ result = Result("create_branch", "ed", 2, NoBranch, TRUE, NoValue, 0)
    /\ pc = <<>>
    /\ txn = <<>>
    /\ userRoles = UserRoles

Actors == {"ed"}
\* The request bodies of an update: the same line drawn the other way with
\* the same properties, and another geometry with other properties.
UpdateBodies == {<<"line_ba", "p1">>, <<"point_c", "p2">>}
Next ==
    \/ \E u \in Actors, b \in DOMAIN branches :
          FeatureCreate(u, b, "line_ab", "p1", FALSE)
    \/ \E u \in Actors, pk \in DOMAIN versions, e \in UpdateBodies :
          FeatureUpdate(u, pk, FALSE, versions[pk].branch, e[1], e[2], FALSE)
    \/ \E u \in Actors, pk \in DOMAIN versions : FeatureSoftDelete(u, pk, FALSE)
    \/ \E sb \in DOMAIN branches, tb \in DOMAIN branches, k \in 0..MaxFeatures :
          MergeBranches(sb, tb, k)

Spec == Init /\ [][Next]_vars

(***************************************************************************)
(* Specification of the merge-request workflow.  It starts where user ed   *)
(* has created feature 1 in master, merge_branches(master, edit) has       *)
(* copied it to the edit branch, and ed has then updated the master row,   *)
(* the edit row, both or neither.                                          *)
(***************************************************************************)
WorkflowEdits == {<<"point_c", "p1">>, <<"line_ab", "p2">>, <<"point_c", "p2">>}
NoEdit == <<NoValue, NoValue>>

\* The row of feature 1 in branch b after the edit e of it (NoEdit: none).
EditedRow(b, e) ==
    IF e = NoEdit
    THEN FeatureVersion(b, 1, 1, "line_ab", "p1", IF b = 1 THEN "CREATE" ELSE "MERGE",
                        FALSE, "ed")
    ELSE FeatureVersion(b, 1, 2, e[1], e[2], "UPDATE", FALSE, "ed")

EditAudit(pk, e) ==
    IF e = NoEdit THEN EmptyBag
    ELSE SetToBag({AuditLog("ed", "UPDATE_FEATURE", "feature", pk)})

InitWorkflow ==
    \E e1 \in WorkflowEdits \cup {NoEdit}, e2 \in WorkflowEdits \cup {NoEdit} :
        /\ branches = InitBranches
        /\ versions = <<EditedRow(1, e1), EditedRow(2, e2)>>
        /\ mergeRequests = <<>>
        /\ conflicts = <<>>
        /\ auditLog = SetToBag({AuditLog("ed", "CREATE_BRANCH", "branch", 2),
                                AuditLog("ed", "CREATE_FEATURE", "feature", 1)})
                      (+) EditAudit(1, e1) (+) EditAudit(2, e2)
        /\ nextFeatureId = 2
        /\ result = IF e2 # NoEdit THEN Result("update_feature", "ed", 2, 2, TRUE, NoValue, 1)
                    ELSE IF e1 # NoEdit
                    THEN Result("update_feature", "ed", 1, 1, TRUE, NoValue, 1)
                    ELSE Result("merge", NoUser, 1, 2, TRUE, NoValue, 1)
        /\ pc = <<>>
        /\ txn = <<>>
        /\ userRoles = UserRoles

Reviewers == {"val", "ed"}

RejectComments == {"no"}
NextWorkflow ==
    \/ \E sb \in DOMAIN branches, tb \in DOMAIN branches : MergeRequestCreate("ed", sb, tb)
    \/ \E u \in Reviewers, m \in DOMAIN mergeRequests, fail \in ApproveFailures :
          Approve(u, m, fail)
    \/ \E u \in Reviewers, m \in DOMAIN mergeRequests, comment \in RejectComments :
          Reject(u, m, comment)
    \/ \E u \in Reviewers, b \in DOMAIN branches : BranchSoftDelete(u, b)
    \/ \E b \in DOMAIN branches, st \in {"active", "deleted"} :
          BranchUpdate("ed", b, branches[b].name, branches[b].layer,
                       branches[b].parent_branch, st)
    \/ \E c \in DOMAIN conflicts, strategy \in {"SOURCE", "MANUAL"} :
          ResolveConflict("val", c, strategy, NoValue, NoValue)
    \/ \E c \in DOMAIN conflicts, r \in BOOLEAN : ConflictAdminChange("root", c, r)

SpecWorkflow == InitWorkflow /\ [][NextWorkflow]_vars

(***************************************************************************)
(* Specification of two requests running at once.  The database runs at    *)
(* its default isolation level, READ COMMITTED: a statement sees the rows  *)
(* committed before it and the rows its own transaction has written; the   *)
(* rows a transaction writes reach the table when it commits.  The         *)
(* feature-version table has indexes and no unique constraint, so no       *)
(* insert waits for or is refused because of another.                      *)
(*                                                                         *)
(* It starts where feature 1, created in master, has been merged into the  *)
(* branches edit and survey and updated once in each of them.              *)
(***************************************************************************)
Requests == {1, 2}

ConcurrentBranches == InitBranches \o <<EditBranch("survey", 1, 1, "val", "active")>>

ConcurrentVersions ==
    <<FeatureVersion(1, 1, 1, "line_ab", "p1", "CREATE", FALSE, "ed"),
      FeatureVersion(2, 1, 2, "point_c", "p1", "UPDATE", FALSE, "ed"),
      FeatureVersion(3, 1, 2, "line_ab", "p2", "UPDATE", FALSE, "val")>>

\* The calls a request can be: merge_branches(edit, master),
\* merge_branches(survey, master), soft_delete of the master row.
ConcurrentCalls ==
    {[op |-> "merge", user |-> NoUser, sb |-> 2, tb |-> 1, pk |-> NoRow],
     [op |-> "merge", user |-> NoUser, sb |-> 3, tb |-> 1, pk |-> NoRow],
     [op |-> "soft_delete", user |-> "ed", sb |-> NoBranch, tb |-> NoBranch, pk |-> 1]}

Locals(call) ==
    [call |-> call, sf |-> <<>>, tf |-> <<>>, f |-> 1, writes |-> <<>>,
     feature |-> NoRow, delete_version |-> NoRow]

InitConcurrent ==
    /\ branches = ConcurrentBranches
    /\ versions = ConcurrentVersions
    /\ mergeRequests = <<>>
    /\ conflicts = <<>>
    /\ auditLog = SetToBag({AuditLog("ed", "CREATE_BRANCH", "branch", 2),
                            AuditLog("val", "CREATE_BRANCH", "branch", 3),
                            AuditLog("ed", "CREATE_FEATURE", "feature", 1),
                            AuditLog("ed", "UPDATE_FEATURE", "feature", 2),
                            AuditLog("val", "UPDATE_FEATURE", "feature", 3)})
    /\ nextFeatureId = 2
    /\ result = Result("update_feature", "val", 3, 3, TRUE, NoValue, 1)
    /\ txn \in [Requests -> {Locals(c) : c \in ConcurrentCalls}]
    /\ userRoles = UserRoles
    /\ pc = [r \in Requests |-> IF txn[r].call.op = "merge" THEN "read_source"
                                ELSE "get_object"]

\* What the statements of request r see.
Visible(r) == versions \o txn[r].writes

\* merge_branches, line 105: source_features.
MergeReadSource(r) ==
    /\ pc[r] = "read_source"
    /\ \E sf \in get_latest_features(Visible(r), txn[r].call.sb) :
          txn' = [txn EXCEPT ![r].sf = sf]
    /\ pc' = [pc EXCEPT ![r] = "read_target"]
    /\ UNCHANGED <<userRoles, branches, versions, mergeRequests, conflicts, auditLog,
                   nextFeatureId, result>>

\* merge_branches, line 106: target_features.
MergeReadTarget(r) ==
    /\ pc[r] = "read_target"
    /\ \E tf \in get_latest_features(Visible(r), txn[r].call.tb) :
          txn' = [txn EXCEPT ![r].tf = tf]
    /\ pc' = [pc EXCEPT ![r] = "loop"]
    /\ UNCHANGED <<userRoles, branches, versions, mergeRequests, conflicts, auditLog,
                   nextFeatureId, result>>

\* merge_branches, lines 110-126: one turn of the loop, for feature f.
MergeNextFeature(r) ==
    /\ pc[r] = "loop"
    /\ LET f == txn[r].f
           sf == txn[r].sf
           seen == Visible(r)
       IN IF f > MaxFeatures
          THEN /\ pc' = [pc EXCEPT ![r] = "commit"]
               /\ UNCHANGED txn
          ELSE /\ pc' = pc
               /\ IF f \in DOMAIN sf /\ merge_writes(seen, seen[sf[f]], txn[r].tf)
                  THEN txn' = [txn EXCEPT
                           ![r].writes = Append(@, Last(create_merged_version(
                                                  seen, seen[sf[f]], txn[r].call.tb))),
                           ![r].f = f + 1]
                  ELSE txn' = [txn EXCEPT ![r].f = f + 1]
    /\ UNCHANGED <<userRoles, branches, versions, mergeRequests, conflicts, auditLog,
                   nextFeatureId, result>>

\* The end of the atomic block of merge_branches: the transaction commits.
MergeCommit(r) ==
    /\ pc[r] = "commit"
    /\ versions' = versions \o txn[r].writes
    /\ txn' = [txn EXCEPT ![r].writes = <<>>]
    /\ pc' = [pc EXCEPT ![r] = "done"]
    /\ UNCHANGED <<userRoles, branches, mergeRequests, conflicts, auditLog, nextFeatureId, result>>

\* FeatureVersionViewSet.soft_delete, line 174: feature = self.get_object().
SoftDeleteGetObject(r) ==
    /\ pc[r] = "get_object"
    /\ feature_get_object(versions, txn[r].call.pk, FALSE) # NoRow
    /\ txn' = [txn EXCEPT ![r].feature = versions[txn[r].call.pk]]
    /\ pc' = [pc EXCEPT ![r] = "create"]
    /\ UNCHANGED <<userRoles, branches, versions, mergeRequests, conflicts, auditLog,
                   nextFeatureId, result>>

\* soft_delete, lines 177-186: the insert, committed at once.
SoftDeleteCreate(r) ==
    /\ pc[r] = "create"
    /\ LET feature == txn[r].feature
       IN versions' = Append(versions,
              FeatureVersion(feature.branch, feature.feature_id, feature.version + 1,
                             feature.geometry, feature.properties, "DELETE", TRUE,
                             txn[r].call.user))
    /\ txn' = [txn EXCEPT ![r].delete_version = Len(versions) + 1]
    /\ pc' = [pc EXCEPT ![r] = "audit"]
    /\ UNCHANGED <<userRoles, branches, mergeRequests, conflicts, auditLog, nextFeatureId, result>>

\* soft_delete, lines 189-195: the audit row.
SoftDeleteAudit(r) ==
    /\ pc[r] = "audit"
    /\ auditLog' = auditLog (+)
           SetToBag({AuditLog(txn[r].call.user, "DELETE_FEATURE", "feature",
                              txn[r].delete_version)})
    /\ pc' = [pc EXCEPT ![r] = "done"]
    /\ UNCHANGED <<userRoles, branches, versions, mergeRequests, conflicts, nextFeatureId, result, txn>>

NextConcurrent ==
    \E r \in Requests :
        \/ MergeReadSource(r)
        \/ MergeReadTarget(r)
        \/ MergeNextFeature(r)
        \/ MergeCommit(r)
        \/ SoftDeleteGetObject(r)
        \/ SoftDeleteCreate(r)
        \/ SoftDeleteAudit(r)

SpecConcurrent == InitConcurrent /\ [][NextConcurrent]_vars

(***************************************************************************)
(* Properties.                                                             *)
(***************************************************************************)
TerminalBranchStatus == {"merged", "closed", "deleted"}

HasUnresolvedConflict(m) ==
    \E c \in DOMAIN conflicts : conflicts[c].merge_request = m /\ ~conflicts[c].resolved

\* C1: in every branch, the version numbers of the rows of every feature are
\* exactly 1..N, each occurring once.
C1_VersionsContiguous ==
    \A b \in DOMAIN branches : \A f \in FeaturesIn(versions, b) :
        LET rows == RowsOfFeature(versions, b, f)
        IN \A v \in 1..Cardinality(rows) :
               Cardinality({i \in rows : versions[i].version = v}) = 1

\* C2: a merge_branches(source, target) that directly follows a
\* merge_branches of the same source into the same target returns a merged
\* count of 0 and appends no row.
C2_SecondMergeWritesNothing ==
    [][(/\ result.op = "merge" /\ result.ok
        /\ result'.op = "merge" /\ result'.ok
        /\ result'.a = result.a /\ result'.b = result.b)
       => (result'.n = 0 /\ versions' = versions)]_vars

\* C3: a merge request whose status is merged or rejected keeps that status,
\* and an approve of it merges nothing.
C3_TerminalRequestStays ==
    [][\A m \in DOMAIN mergeRequests :
          mergeRequests[m].status \in {"merged", "rejected"}
          => /\ mergeRequests'[m].status = mergeRequests[m].status
             /\ (result'.op \in {"approve", "reject"} /\ result'.a = m)
                    => versions' = versions]_vars

\* C4: an approve of a merge request that has an unresolved conflict fails,
\* leaves the status of the merge request as it was and appends no version.
C4_ApproveBlockedByUnresolved ==
    [][\A m \in DOMAIN mergeRequests :
          (HasUnresolvedConflict(m) /\ result'.op = "approve" /\ result'.a = m)
          => /\ ~result'.ok
             /\ mergeRequests'[m].status = mergeRequests[m].status
             /\ versions' = versions]_vars

\* C4, its case: an approve by a user allowed to approve has just been
\* answered with the unresolved-conflicts error.
C4_Witness ==
    \E m \in DOMAIN mergeRequests :
        /\ HasUnresolvedConflict(m)
        /\ result.op = "approve" /\ result.a = m /\ result.err = "unresolved"
        /\ mergeRequests[m].status = "conflicts"

\* C5: a branch with no parent and the name master never has status deleted.
C5_MasterNeverDeleted ==
    \A b \in DOMAIN branches : is_master(branches[b]) => branches[b].status # "deleted"

\* C6: a branch whose status is merged, closed or deleted keeps that status.
C6_TerminalBranchStays ==
    [][\A b \in DOMAIN branches :
          branches[b].status \in TerminalBranchStatus
          => branches'[b].status = branches[b].status]_vars

\* C7: a feature update and a feature soft-delete leave every stored row as
\* it was and add exactly one row; the soft-delete's row is a deleted row
\* with operation DELETE.
C7_EditsOnlyAppend ==
    [][(result'.op \in {"update_feature", "delete_feature"} /\ result'.ok)
       => /\ Len(versions') = Len(versions) + 1
          /\ \A i \in DOMAIN versions : versions'[i] = versions[i]
          /\ result'.op = "delete_feature"
                 => Last(versions').is_deleted /\ Last(versions').operation = "DELETE"]_vars

\* C8: two requests running at once, two merges into one target or a merge
\* and a feature soft-delete, never leave two rows of one feature of one
\* branch with the same version number.
C8_NoSharedVersionNumber ==
    (\E r \in Requests : txn[r].call.op = "merge")
    => \A i \in DOMAIN versions : \A j \in DOMAIN versions :
           (i # j /\ versions[i].branch = versions[j].branch
                  /\ versions[i].feature_id = versions[j].feature_id)
           => versions[i].version # versions[j].version

\* The tables merge_branches(sb, tb) can leave when it runs alone on vs.
MergeAlone(vs, sb, tb) ==
    {merge_branches(vs, sf, tf, tb, 0).table :
        sf \in get_latest_features(vs, sb), tf \in get_latest_features(vs, tb)}

\* The tables two merges can leave when one runs after the other.
SerialOutcomes(vs, c1, c2) ==
    UNION {MergeAlone(mid, c2.sb, c2.tb) : mid \in MergeAlone(vs, c1.sb, c1.tb)}
    \cup UNION {MergeAlone(mid, c1.sb, c1.tb) : mid \in MergeAlone(vs, c2.sb, c2.tb)}

\* C9: when two merges into one target have run at once and both have
\* ended, the table is one that running them one after the other leaves.
C9_MergesSerializable ==
    (/\ \A r \in Requests : pc[r] = "done" /\ txn[r].call.op = "merge"
     /\ txn[1].call.tb = txn[2].call.tb)
    => versions \in SerialOutcomes(ConcurrentVersions, txn[1].call, txn[2].call)

\* C10: an approve that fails once the merge has started leaves the ledger,
\* the status of the merge request and the status of the source branch as
\* they were.
C10_FailedApproveChangesNothing ==
    [][\A m \in DOMAIN mergeRequests :
          (/\ result'.op = "approve" /\ result'.a = m /\ ~result'.ok
           /\ result'.err \in {"merge", "mr_save", "branch_save", "audit"})
          => /\ versions' = versions
             /\ mergeRequests'[m].status = mergeRequests[m].status
             /\ branches'[mergeRequests[m].source_branch].status
                    = branches[mergeRequests[m].source_branch].status]_vars

\* C11: a merge_branches that raises while writing a merged version leaves
\* the ledger as it was before the call, the versions it had appended
\* before the failure included.
C11_FailedMergeRollsBack ==
    [][(result'.op = "merge" /\ ~result'.ok) => versions' = versions]_vars

\* C11, its case: merge_branches has raised on its second write, after the
\* first merged version had been appended.
C11_Witness ==
    /\ result.op = "merge" /\ ~result.ok /\ result.n = 2
    /\ \E sf \in get_latest_features(versions, result.a),
          tf \in get_latest_features(versions, result.b) :
           Len(MergeLoop(versions, sf, tf, result.b, 1, MaxFeatures)) >= Len(versions) + 2

(***************************************************************************)
(* Specification of branch creation: the layer-created hook, the editor    *)
(* view and POST /branches/, over layers that exist from the start and     *)
(* have no branch yet.                                                     *)
(***************************************************************************)
Layers == {1, 2}
layer_owner(l) == "root"

\* EditBranch.objects.filter(layer=l, name='master', parent_branch=None)
MastersOf(brs, l) ==
    {b \in DOMAIN brs : brs[b].layer = l /\ brs[b].name = "master"
                        /\ brs[b].parent_branch = NoBranch}

\* unique_together (layer, name, created_by), asked of a row to insert.
insert_unique(brs, row) ==
    \A o \in DOMAIN brs :
        ~(brs[o].layer = row.layer /\ brs[o].name = row.name
          /\ brs[o].created_by = row.created_by)

\* post_save of a Dataset: create_master_branch_for_layer.  Whatever the
\* insert raises is caught and logged.
LayerCreated(l, created, subtype) ==
    /\ l \in Layers
    /\ LET row == EditBranch("master", l, NoBranch, layer_owner(l), "active")
       IN IF created /\ subtype = "vector" /\ MastersOf(branches, l) = {}
             /\ insert_unique(branches, row)
          THEN /\ Len(branches) < MaxBranches
               /\ branches' = Append(branches, row)
          ELSE UNCHANGED branches
    /\ result' = Result("layer_created", layer_owner(l), l, NoBranch, TRUE, NoValue, 0)
    /\ UNCHANGED <<userRoles, versions, mergeRequests, conflicts, auditLog, nextFeatureId, pc, txn>>

\* GET layer/<l>/editor/ : layer_editor, up to its get_or_create.
LayerEditor(u, l, has_perm) ==
    /\ l \in Layers
    /\ LET row == EditBranch("master", l, NoBranch, layer_owner(l), "active")
           found == Cardinality(MastersOf(branches, l))
       IN IF ~has_perm
          THEN /\ result' = Result("layer_editor", u, l, NoBranch, FALSE, "forbidden", 0)
               /\ UNCHANGED branches
          ELSE IF found > 1
          THEN /\ result' = Result("layer_editor", u, l, NoBranch, FALSE, "multiple", 0)
               /\ UNCHANGED branches
          ELSE IF found = 1
          THEN /\ result' = Result("layer_editor", u, l, NoBranch, TRUE, NoValue, 0)
               /\ UNCHANGED branches
          ELSE IF ~insert_unique(branches, row)
          THEN /\ result' = Result("layer_editor", u, l, NoBranch, FALSE, "integrity", 0)
               /\ UNCHANGED branches
          ELSE /\ Len(branches) < MaxBranches
               /\ branches' = Append(branches, row)
               /\ result' = Result("layer_editor", u, l, NoBranch, TRUE, NoValue, 1)
    /\ UNCHANGED <<userRoles, versions, mergeRequests, conflicts, auditLog, nextFeatureId, pc, txn>>

\* POST /branches/ : perform_create.  name, layer, parent_branch and status
\* come from the request body, created_by is the requesting user.
BranchCreate(u, name, l, parent, status) ==
    /\ l \in Layers
    /\ parent \in DOMAIN branches \cup {NoBranch}
    /\ status \in STATUS_CHOICES
    /\ LET row == EditBranch(name, l, parent, u, status)
       IN IF ~insert_unique(branches, row)
          THEN /\ result' = Result("create_branch", u, NoBranch, NoBranch, FALSE, "integrity", 0)
               /\ UNCHANGED <<branches, auditLog>>
          ELSE /\ Len(branches) < MaxBranches
               /\ branches' = Append(branches, row)
               /\ auditLog' = auditLog (+) SetToBag({AuditLog(u, "CREATE_BRANCH", "branch",
                                                              Len(branches) + 1)})
               /\ result' = Result("create_branch", u, Len(branches) + 1, NoBranch,
                                   TRUE, NoValue, 0)
    /\ UNCHANGED <<userRoles, versions, mergeRequests, conflicts, nextFeatureId, pc, txn>>

InitBranchCreation ==
    /\ branches = <<>>
    /\ versions = <<>>
    /\ mergeRequests = <<>>
    /\ conflicts = <<>>
    /\ auditLog = EmptyBag
    /\ nextFeatureId = 1
    /\ result = Result("start", NoUser, NoBranch, NoBranch, TRUE, NoValue, 0)
    /\ pc = <<>>
    /\ txn = <<>>
    /\ userRoles = UserRoles

BranchNames == {"master", "edit"}
BranchCreators == {"root", "ed"}
NextBranchCreation ==
    \/ \E l \in Layers, created \in BOOLEAN, subtype \in {"vector", "raster"} :
          LayerCreated(l, created, subtype)
    \/ \E u \in BranchCreators, l \in Layers, has_perm \in BOOLEAN : LayerEditor(u, l, has_perm)
    \/ \E u \in BranchCreators, name \in BranchNames, l \in Layers,
          parent \in DOMAIN branches \cup {NoBranch} :
          BranchCreate(u, name, l, parent, "active")

SpecBranchCreation == InitBranchCreation /\ [][NextBranchCreation]_vars

\* C12: once a layer has a master branch (no parent, name master) it has
\* exactly one after every layer-created hook, editor opening and branch
\* creation, and the hook creates nothing for a layer that has one.
C12_OneMasterPerLayer ==
    [][\A l \in Layers :
          MastersOf(branches, l) # {}
          => /\ Cardinality(MastersOf(branches', l)) = 1
             /\ (result'.op = "layer_created" /\ result'.a = l) => branches' = branches]_vars

(***************************************************************************)
(* PermissionManager.  The checks read the role table.                     *)
(***************************************************************************)
is_admin(u) == is_superuser(u) \/ \E r \in userRoles : r.user = u /\ r.role = "admin"

is_editor_in_group(u, group) ==
    is_superuser(u)
    \/ \E r \in userRoles : r.user = u /\ r.group = group
                            /\ r.role \in {"editor", "validator", "admin"}

can_edit_branch(u, br) ==
    \/ is_admin(u)
    \/ br.created_by = u
    \/ (br.group # NoGroup /\ is_editor_in_group(u, br.group))

can_approve_merge_request(u, mr, brs) ==
    \/ is_admin(u)
    \/ /\ brs[mr.target_branch].group # NoGroup
       /\ \E r \in userRoles : /\ r.user = u /\ r.group = brs[mr.target_branch].group
                               /\ r.role \in {"validator", "admin"} /\ r.can_approve_merges

\* C13: an approve or a reject by an actor who is neither admin nor
\* validator-or-higher with can_approve_merges in the group of the target
\* branch fails and leaves the merge request as it was.
C13_OnlyGroupValidatorsReview ==
    [][\A m \in DOMAIN mergeRequests :
          (/\ result'.op \in {"approve", "reject"} /\ result'.a = m
           /\ ~can_approve_merge_request(result'.user, mergeRequests[m], branches))
          => ~result'.ok /\ mergeRequests'[m] = mergeRequests[m]]_vars

\* C14: a feature create, update or soft-delete that stores a version in a
\* branch was asked by a user who is admin, creator of the branch or
\* editor-or-higher in the group of the branch.
C14_OnlyBranchEditorsWrite ==
    [][(/\ result'.op \in {"create_feature", "update_feature", "delete_feature"}
        /\ result'.ok)
       => can_edit_branch(result'.user, branches[result'.b])]_vars

\* The features the detector reports for one outcome (sf, tf) of its reads.
Reported(vs, sf, tf) ==
    {f \in DOMAIN sf \cap DOMAIN tf : detect_conflict_type(vs[sf[f]], vs[tf[f]]) # NoValue}

\* The conflict records bound to merge request m.
BoundConflicts(cs, m) == {c \in DOMAIN cs : cs[c].merge_request = m}

\* C15: a merge request that has just been created has status conflicts
\* when the detector reports a conflict between its branches and pending
\* when it reports none, and one conflict record is bound to it for each
\* reported conflict.
C15_CreatedStatusFollowsDetector ==
    [][(result'.op = "create_merge_request" /\ result'.ok)
       => LET m == Len(mergeRequests')
              mr == mergeRequests'[m]
          IN \E sf \in get_latest_features(versions, mr.source_branch),
                tf \in get_latest_features(versions, mr.target_branch) :
                LET rep == Reported(versions, sf, tf)
                IN /\ mr.status = IF rep # {} THEN "conflicts" ELSE "pending"
                   /\ Cardinality(BoundConflicts(conflicts', m)) = Cardinality(rep)
                   /\ \A f \in rep :
                          \E c \in BoundConflicts(conflicts', m) :
                              /\ conflicts'[c].feature_id = f
                              /\ conflicts'[c].conflict_type =
                                     detect_conflict_type(versions[sf[f]], versions[tf[f]])
                              /\ conflicts'[c].source_version = sf[f]
                              /\ conflicts'[c].target_version = tf[f]]_vars

\* C15, its case: a merge request between two branches that both changed a
\* feature has just been created with status conflicts and a bound record.
C15_Witness ==
    /\ result.op = "create_merge_request" /\ result.ok
    /\ mergeRequests # <<>>
    /\ Last(mergeRequests).status = "conflicts"
    /\ BoundConflicts(conflicts, Len(mergeRequests)) # {}

\* The rows a step has appended to the feature-version table.
NewRows(before, after) == (Len(before) + 1)..Len(after)

C17_RejectOnlyRejects ==
    [][\A m \in DOMAIN mergeRequests :
          (result'.op = "reject" /\ result'.a = m /\ result'.ok)
          => /\ mergeRequests'[m].status = "rejected"
             /\ mergeRequests'[m].reviewed_by = result'.user
             /\ mergeRequests'[m].review_comment \in RejectComments
             /\ versions' = versions
             /\ branches' = branches]_vars

\* C17, its case: a pending or conflicting merge request has just been
\* rejected by a validator.
C17_Witness ==
    /\ result.op = "reject" /\ result.ok
    /\ result.a \in DOMAIN mergeRequests
    /\ mergeRequests[result.a].status = "rejected"
    /\ mergeRequests[result.a].reviewed_by = result.user
    /\ \A b \in DOMAIN branches : branches[b].status = "active"

(***************************************************************************)
(* Specification of the conflict detector, called as a service on tables   *)
(* that hold feature 1 in master and in the edit branch.                   *)
(***************************************************************************)
\* A detector that stores a conflict row for each entry it returns.
DetectConflicts_recording(sb, tb) ==
    /\ sb \in DOMAIN branches /\ tb \in DOMAIN branches
    /\ \E sf \in get_latest_features(versions, sb), tf \in get_latest_features(versions, tb) :
         LET found == detect_conflicts(versions, sf, tf)
         IN /\ result' = Result("detect_conflicts", NoUser, sb, tb, TRUE, NoValue, found)
            /\ conflicts' = conflicts \o [i \in 1..Len(found) |-> MergeConflict(0, found[i])]
    /\ UNCHANGED <<userRoles, branches, versions, mergeRequests, auditLog, nextFeatureId,
                   pc, txn>>

\* ConflictDetector().detect_conflicts(source, target): the outcome records
\* the list it returns.
DetectConflicts(sb, tb) ==
    /\ sb \in DOMAIN branches /\ tb \in DOMAIN branches
    /\ \E sf \in get_latest_features(versions, sb), tf \in get_latest_features(versions, tb) :
         result' = Result("detect_conflicts", NoUser, sb, tb, TRUE, NoValue,
                          detect_conflicts(versions, sf, tf))
    /\ UNCHANGED <<userRoles, branches, versions, mergeRequests, conflicts, auditLog, nextFeatureId,
                   pc, txn>>

\* The latest row of feature 1 in branch b: created or merged in (version
\* 1), or updated since.
DetectorRow(b, v, g, p, d) ==
    FeatureVersion(b, 1, v, g, p,
                   IF v > 1 THEN "UPDATE" ELSE IF b = 1 THEN "CREATE" ELSE "MERGE", d, "ed")

\* The pairs (master row r1, edit row r2) the handlers can produce for a
\* feature posted to master.  A row of the edit branch at version 1 is a
\* merged copy, never deleted, and equal to a master row still at version
\* 1.  A master row at version 1 that is deleted was posted as deleted,
\* which merge_branches skips: the edit branch then got the feature through
\* a soft-delete row that an update moved there, at version 3 or more.
DetectorRowsReachable(r1, r2) ==
    /\ r2.version = 1 => ~r2.is_deleted
    /\ (r1.version = 1 /\ r2.version = 1)
           => r1.geometry = r2.geometry /\ r1.properties = r2.properties
    /\ (r1.version = 1 /\ r1.is_deleted) => r2.version >= 3

\* The audit rows of the requests that brought row pk to version v, the
\* first of them a soft-delete when the row began as a soft-delete row.
DetectorAudit(pk, v, moved) ==
    LET updates == IF moved THEN v - 2 ELSE v - 1
    IN (IF moved THEN SetToBag({AuditLog("ed", "DELETE_FEATURE", "feature", pk)})
        ELSE EmptyBag)
       (+) (IF updates = 0 THEN EmptyBag
            ELSE [e \in {AuditLog("ed", "UPDATE_FEATURE", "feature", pk)} |-> updates])

InitDetector ==
    \E v1 \in 1..MaxVersion, v2 \in 1..MaxVersion, g1 \in Geometries, g2 \in Geometries,
       p1 \in Properties, p2 \in Properties, d1 \in BOOLEAN, d2 \in BOOLEAN :
        /\ DetectorRowsReachable(DetectorRow(1, v1, g1, p1, d1), DetectorRow(2, v2, g2, p2, d2))
        /\ branches = InitBranches
        /\ versions = <<DetectorRow(1, v1, g1, p1, d1), DetectorRow(2, v2, g2, p2, d2)>>
        /\ mergeRequests = <<>>
        /\ conflicts = <<>>
        /\ auditLog = SetToBag({AuditLog("ed", "CREATE_BRANCH", "branch", 2),
                                AuditLog("ed", "CREATE_FEATURE", "feature", 1)})
                      (+) DetectorAudit(1, v1, FALSE)
                      (+) DetectorAudit(2, v2, v1 = 1 /\ d1)
        /\ nextFeatureId = 2
        /\ result = IF v2 > 1 THEN Result("update_feature", "ed", 2, 2, TRUE, NoValue, 1)
                    ELSE IF v1 > 1 THEN Result("update_feature", "ed", 1, 1, TRUE, NoValue, 1)
                    ELSE Result("merge", NoUser, 1, 2, TRUE, NoValue, 1)
        /\ pc = <<>>
        /\ txn = <<>>
        /\ userRoles = UserRoles

NextDetector == \E sb \in DOMAIN branches, tb \in DOMAIN branches : DetectConflicts(sb, tb)

SpecDetector == InitDetector /\ [][NextDetector]_vars

\* A conflict entry with its source and target versions exchanged.
Swapped(c) ==
    [feature_id |-> c.feature_id, conflict_type |-> c.conflict_type,
     source_version |-> c.target_version, target_version |-> c.source_version]

\* The classification by content alone.
ContentConflict(sv, tv) ==
    IF ~geometry_equals(sv.geometry, tv.geometry) /\ sv.properties # tv.properties
    THEN "BOTH"
    ELSE IF ~geometry_equals(sv.geometry, tv.geometry) THEN "GEOMETRY"
    ELSE IF sv.properties # tv.properties THEN "PROPERTIES"
    ELSE NoValue

\* What a returned list says of feature f: the types of its entries.
ReportedTypes(found, f) ==
    {found[i].conflict_type : i \in {j \in DOMAIN found : found[j].feature_id = f}}

\* C18: detect_conflicts(B, A) called after detect_conflicts(A, B) on the
\* same table reports the same features with the same types, source and
\* target versions exchanged.
C18_DetectorSymmetric ==
    [][(/\ result.op = "detect_conflicts" /\ result'.op = "detect_conflicts"
        /\ result'.a = result.b /\ result'.b = result.a)
       => {Swapped(result.n[i]) : i \in DOMAIN result.n}
              = {result'.n[i] : i \in DOMAIN result'.n}]_vars

\* C18, its case: detect_conflicts(A, B) between two different branches has
\* reported a DELETE conflict, which depends on which side is deleted.
C18_Witness ==
    /\ result.op = "detect_conflicts" /\ result.a # result.b
    /\ \E i \in DOMAIN result.n : result.n[i].conflict_type = "DELETE"

\* C19: for a feature whose latest versions in both branches are above
\* version 1, detect_conflicts reports what the contents say, whatever the
\* deleted flags: BOTH, GEOMETRY, PROPERTIES, or nothing when geometry and
\* properties are equal.
C19_ContentDecidesAboveOne ==
    [][result'.op = "detect_conflicts"
       => \A sf \in get_latest_features(versions, result'.a),
             tf \in get_latest_features(versions, result'.b) :
             \A f \in DOMAIN sf \cap DOMAIN tf :
                 (versions[sf[f]].version > 1 /\ versions[tf[f]].version > 1)
                 => ReportedTypes(result'.n, f)
                        = {ContentConflict(versions[sf[f]], versions[tf[f]])} \ {NoValue}]_vars

\* C20: for a feature present in both branches with at least one latest
\* version at version 1, detect_conflicts reports nothing, deleted or not.
C20_BaselineNeverConflicts ==
    [][result'.op = "detect_conflicts"
       => \A sf \in get_latest_features(versions, result'.a),
             tf \in get_latest_features(versions, result'.b) :
             \A f \in DOMAIN sf \cap DOMAIN tf :
                 (versions[sf[f]].version = 1 \/ versions[tf[f]].version = 1)
                 => ReportedTypes(result'.n, f) = {}]_vars

(***************************************************************************)
(* Role administration: assign_role and remove_role of PermissionManager   *)
(* and the UserRole page of the admin site.  Every write of a row goes     *)
(* through UserRole.save.                                                  *)
(***************************************************************************)
MaxRoles == 3

RoleTargets == {"ed"}
RoleGroups == {"g1", "g2"}
RoleInputs == ROLE_CHOICES \cup {"owner"}
RoleCallers == {"root", "ed"}

\* An optional argument: None, or the value the caller passed.
None == <<>>
Given(x) == <<x>>

RoleKey(r) == <<r.user, r.group, r.role>>

save_as_given(row) == row

\* UserRole.save: a validator or admin row is stored with the flag set.
UserRole_save(row) ==
    IF row.role \in {"validator", "admin"}
    THEN [row EXCEPT !.can_approve_merges = TRUE]
    ELSE row

\* objects.update_or_create(user, group, role, defaults): the row with this
\* key takes the defaults and is saved; without one a row is created.
update_or_create(table, u, group, role, can_approve_merges, can_manage_branches) ==
    {r \in table : RoleKey(r) # <<u, group, role>>}
    \cup {UserRole_save([user |-> u, group |-> group, role |-> role,
                         can_approve_merges |-> can_approve_merges,
                         can_manage_branches |-> can_manage_branches])}

\* A check that lets every user manage roles.
can_manage_users_anyone(u) == TRUE

\* PermissionManager.can_manage_users.
can_manage_users(u) == is_admin(u)

AssignRole(admin_user, target_user, group, role, can_approve_merges, can_manage_branches) ==
    LET flag == IF can_approve_merges = None
                THEN role \in {"validator", "admin"}
                ELSE can_approve_merges[1]
        table == update_or_create(userRoles, target_user, group, role, flag,
                                  can_manage_branches)
        err == IF ~can_manage_users(admin_user) THEN "PermissionError"
               ELSE IF role \notin ROLE_CHOICES THEN "ValueError"
               ELSE NoValue
    IN
    /\ Cardinality(table) <= MaxRoles
    /\ userRoles' = IF err = NoValue THEN table ELSE userRoles
    /\ result' = Result("assign_role", admin_user, <<target_user, group, role>>,
                        can_approve_merges, err = NoValue, err, can_manage_branches)
    /\ UNCHANGED <<branches, versions, mergeRequests, conflicts, auditLog,
                   nextFeatureId, pc, txn>>

RemoveRole(admin_user, target_user, group, role) ==
    LET err == IF ~can_manage_users(admin_user) THEN "PermissionError" ELSE NoValue
    IN
    /\ userRoles' = IF err = NoValue
                    THEN {r \in userRoles : RoleKey(r) # <<target_user, group, role>>}
                    ELSE userRoles
    /\ result' = Result("remove_role", admin_user, <<target_user, group, role>>,
                        None, err = NoValue, err, 0)
    /\ UNCHANGED <<branches, versions, mergeRequests, conflicts, auditLog,
                   nextFeatureId, pc, txn>>

\* The change page of UserRoleAdmin: a superuser edits role and flag of a
\* stored row; the form refuses a key another row holds, then saves.
UserRoleAdminChange(u, old, role, can_approve_merges) ==
    LET row == [old EXCEPT !.role = role, !.can_approve_merges = can_approve_merges]
        clash == \E r \in userRoles \ {old} : RoleKey(r) = RoleKey(row)
        ok == is_superuser(u) /\ ~clash
    IN
    /\ old \in userRoles
    /\ userRoles' = IF ok THEN (userRoles \ {old}) \cup {UserRole_save(row)}
                    ELSE userRoles
    /\ result' = Result("admin_change_role", u, RoleKey(row), Given(can_approve_merges), ok,
                        IF ok THEN NoValue
                        ELSE IF clash THEN "ValidationError" ELSE "PermissionDenied", 0)
    /\ UNCHANGED <<branches, versions, mergeRequests, conflicts, auditLog,
                   nextFeatureId, pc, txn>>

InitRoles ==
    /\ branches = InitBranches
    /\ versions = <<>>
    /\ mergeRequests = <<>>
    /\ conflicts = <<>>
    /\ auditLog = SetToBag({AuditLog("ed", "CREATE_BRANCH", "branch", 2)})
    /\ nextFeatureId = 1
    /\ result = Result("create_branch", "ed", <<NoUser, NoGroup, NoValue>>, None,
                       TRUE, NoValue, 0)
    /\ pc = <<>>
    /\ txn = <<>>
    /\ userRoles = UserRoles

NextRoles ==
    \/ \E a \in RoleCallers, u \in RoleTargets, g \in RoleGroups, role \in RoleInputs,
          f \in {None, Given(TRUE), Given(FALSE)}, mb \in BOOLEAN :
          AssignRole(a, u, g, role, f, mb)
    \/ \E a \in RoleCallers, u \in RoleTargets, g \in RoleGroups, role \in ROLE_CHOICES :
          RemoveRole(a, u, g, role)
    \/ \E old \in userRoles, role \in ROLE_CHOICES, f \in BOOLEAN :
          UserRoleAdminChange("root", old, role, f)

SpecRoles == InitRoles /\ [][NextRoles]_vars

\* C21: every stored role whose role is validator or admin has
\* can_approve_merges = TRUE, whatever can_approve_merges value the callers
\* of assign_role supplied.
C21_ReviewRolesCanApprove ==
    \A r \in userRoles : r.role \in {"validator", "admin"} => r.can_approve_merges

\* A validator or admin row was just assigned with can_approve_merges = FALSE
\* supplied, and is stored.
C21_Witness ==
    /\ result.op = "assign_role" /\ result.ok /\ result.b = Given(FALSE)
    /\ result.a[3] \in {"validator", "admin"}
    /\ \E r \in userRoles : RoleKey(r) = result.a

(***************************************************************************)
(* Merge requests over branches of two layers: POST and PUT/PATCH of the   *)
(* merge-request view set, and PUT/PATCH of a branch that carries it to    *)
(* another layer.                                                          *)
(***************************************************************************)
\* PUT/PATCH /merge-requests/<m>/ : the update ModelViewSet provides.  source
\* and target are the branches in the request data, NoBranch for a field the
\* data leaves out.  validate compares the two, then reads their layers.
MergeRequestUpdate(u, m, source, target) ==
    LET err == IF source = target THEN "validation"
               ELSE IF source = NoBranch \/ target = NoBranch THEN "AttributeError"
               ELSE IF branches[source].layer # branches[target].layer THEN "validation"
               ELSE NoValue
    IN
    /\ m \in DOMAIN mergeRequests
    /\ source \in DOMAIN branches \cup {NoBranch}
    /\ target \in DOMAIN branches \cup {NoBranch}
    /\ mergeRequests' = IF err = NoValue
                        THEN [mergeRequests EXCEPT ![m].source_branch = source,
                                                   ![m].target_branch = target]
                        ELSE mergeRequests
    /\ result' = Result("update_merge_request", u, source, target, err = NoValue, err, m)
    /\ UNCHANGED <<branches, versions, conflicts, auditLog, nextFeatureId, pc, txn,
                   userRoles>>

\* Layers 1 and 2 with their master branches, and ed's edit branch of layer 1
\* holding one feature.
InitMergeRequestEdit ==
    /\ branches = <<EditBranch("master", 1, NoBranch, "root", "active"),
                    EditBranch("edit", 1, 1, "ed", "active"),
                    EditBranch("master", 2, NoBranch, "root", "active")>>
    /\ versions = <<FeatureVersion(2, 1, 1, "line_ab", "p1", "CREATE", FALSE, "ed")>>
    /\ mergeRequests = <<>>
    /\ conflicts = <<>>
    /\ auditLog = SetToBag({AuditLog("ed", "CREATE_BRANCH", "branch", 2),
                            AuditLog("ed", "CREATE_FEATURE", "feature", 1)})
    /\ nextFeatureId = 2
    /\ result = Result("create_feature", "ed", 1, 2, TRUE, NoValue, 1)
    /\ pc = <<>>
    /\ txn = <<>>
    /\ userRoles = UserRoles

NextMergeRequestEdit ==
    \/ \E sb \in DOMAIN branches, tb \in DOMAIN branches : MergeRequestCreate("ed", sb, tb)
    \/ \E m \in DOMAIN mergeRequests, sb \in DOMAIN branches \cup {NoBranch},
          tb \in DOMAIN branches \cup {NoBranch} : MergeRequestUpdate("ed", m, sb, tb)
    \/ \E b \in DOMAIN branches, l \in Layers :
          BranchUpdate("ed", b, branches[b].name, l, branches[b].parent_branch,
                       branches[b].status)

SpecMergeRequestEdit == InitMergeRequestEdit /\ [][NextMergeRequestEdit]_vars

\* C22: every stored merge request has a source branch different from its
\* target branch, and the two branches belong to the same layer.
C22_RequestJoinsOneLayer ==
    \A m \in DOMAIN mergeRequests :
        /\ mergeRequests[m].source_branch # mergeRequests[m].target_branch
        /\ branches[mergeRequests[m].source_branch].layer
           = branches[mergeRequests[m].target_branch].layer

\* C23: detect_conflicts changes no persisted state: the ledgers, the
\* branches, the merge requests, the conflicts, the audit log and the role
\* table are the same before and after the call.
C23_DetectorWritesNothing ==
    [][result'.op = "detect_conflicts"
       => UNCHANGED <<versions, branches, mergeRequests, conflicts, auditLog, userRoles>>]_vars

\* The detector has returned a conflict and no conflict row is stored.
C23_Witness ==
    /\ result.op = "detect_conflicts" /\ result.n # <<>>
    /\ conflicts = <<>> /\ mergeRequests = <<>>

\* The rows a step has appended for feature f.
NewRowsOf(before, after, f) == {i \in NewRows(before, after) : after[i].feature_id = f}

\* C24: for a feature present in both branches whose latest source version
\* is not deleted, a merge_branches that completes appends one MERGE version
\* to the target exactly when the source's latest version number is higher
\* than the target's or the two latest versions differ in geometry or in
\* properties; otherwise it appends nothing for that feature.
C24_MergeWritesNewerOrDifferent ==
    [][(result'.op = "merge" /\ result'.ok)
       => \E sf \in get_latest_features(versions, result'.a),
             tf \in get_latest_features(versions, result'.b) :
            \A f \in DOMAIN sf \cap DOMAIN tf :
                LET sv == versions[sf[f]]
                    tv == versions[tf[f]]
                    added == NewRowsOf(versions, versions', f)
                IN ~sv.is_deleted
                   => IF \/ sv.version > tv.version
                         \/ ~geometry_equals(sv.geometry, tv.geometry)
                         \/ sv.properties # tv.properties
                      THEN /\ Cardinality(added) = 1
                           /\ \A i \in added : /\ versions'[i].operation = "MERGE"
                                               /\ versions'[i].branch = result'.b
                      ELSE added = {}]_vars

\* A merge has appended a version for a feature whose source version number
\* was not higher than the target's: the contents differed.
C24_Witness ==
    /\ result.op = "merge" /\ result.ok /\ result.a # result.b /\ result.n = 1
    /\ LET r == versions[Len(versions)]
       IN /\ r.operation = "MERGE" /\ r.branch = result.b /\ r.version > 1
          /\ RowsOfFeature(versions, result.a, r.feature_id) # {}
          /\ MaxVersionOf(versions, result.a, r.feature_id) < r.version
          /\ \A k \in RowsOfFeature(versions, result.a, r.feature_id) :
                 ~versions[k].is_deleted

\* C25: for every feature whose latest source version is deleted,
\* merge_branches appends no version, and the target's rows of that feature
\* are unchanged.
C25_DeletedSourceNotMerged ==
    [][result'.op = "merge"
       => \E sf \in get_latest_features(versions, result'.a) :
            \A f \in DOMAIN sf :
                versions[sf[f]].is_deleted
                => /\ NewRowsOf(versions, versions', f) = {}
                   /\ RowsOfFeature(versions', result'.b, f)
                      = RowsOfFeature(versions, result'.b, f)
                   /\ \A i \in RowsOfFeature(versions, result'.b, f) :
                          versions'[i] = versions[i]]_vars

\* A merge has completed from a source whose latest version of a feature is
\* deleted and whose number is above what the target holds of that feature.
C25_Witness ==
    /\ result.op = "merge" /\ result.ok /\ result.a # result.b
    /\ \E f \in FeaturesIn(versions, result.a) :
           /\ \A k \in FirstByVersionDesc(versions, result.a, f) : versions[k].is_deleted
           /\ \/ RowsOfFeature(versions, result.b, f) = {}
              \/ MaxVersionOf(versions, result.b, f) < MaxVersionOf(versions, result.a, f)

(***************************************************************************)
(* Specification of the conflict resolver, called as a service on the      *)
(* conflicts of a merge request from the edit branch into master, after    *)
(* feature 1 was updated in both.                                          *)
(***************************************************************************)
Strategies == {"SOURCE", "TARGET", "MANUAL", "THEIRS"}
ManualGeometries == {NoValue, "point_c"}
ManualProperties == {NoValue, "p2"}

InitResolver ==
    \E e1 \in WorkflowEdits, e2 \in WorkflowEdits :
        LET vs == <<EditedRow(1, e1), EditedRow(2, e2)>>
            found == detect_conflicts(vs, [f \in {1} |-> 2], [f \in {1} |-> 1])
        IN /\ found # <<>>
           /\ branches = InitBranches
           /\ versions = vs
           /\ mergeRequests = <<MergeRequest(2, 1, "conflicts", "ed")>>
           /\ conflicts = [i \in 1..Len(found) |-> MergeConflict(1, found[i])]
           /\ auditLog = SetToBag({AuditLog("ed", "CREATE_BRANCH", "branch", 2),
                                   AuditLog("ed", "CREATE_FEATURE", "feature", 1),
                                   AuditLog("ed", "UPDATE_FEATURE", "feature", 1),
                                   AuditLog("ed", "UPDATE_FEATURE", "feature", 2),
                                   AuditLog("ed", "CREATE_MERGE_REQUEST", "merge_request", 1)})
           /\ nextFeatureId = 2
           /\ result = Result("create_merge_request", "ed", 2, 1, TRUE, NoValue, Len(found))
           /\ pc = <<>>
           /\ txn = <<>>
           /\ userRoles = UserRoles

NextResolver ==
    \/ \E u \in Reviewers, c \in DOMAIN conflicts, strategy \in Strategies,
          mg \in ManualGeometries, mp \in ManualProperties :
          ResolveConflict(u, c, strategy, mg, mp)
    \/ \E c \in DOMAIN conflicts, r \in BOOLEAN : ConflictAdminChange("root", c, r)

SpecResolver == InitResolver /\ [][NextResolver]_vars

\* The calls the resolver is specified to accept.
Accepted(call) ==
    \/ call.resolution_strategy \in {"SOURCE", "TARGET"}
    \/ /\ call.resolution_strategy = "MANUAL"
       /\ call.manual_geometry # NoValue /\ call.manual_properties # NoValue

\* The conflict row an accepted call is specified to leave.
Resolved(c, call, u) ==
    LET from == IF call.resolution_strategy = "SOURCE" THEN c.source_version
                ELSE c.target_version
    IN [c EXCEPT !.resolved = TRUE,
                 !.resolution_strategy = call.resolution_strategy,
                 !.resolved_by = u,
                 !.resolved_geometry = IF call.resolution_strategy = "MANUAL"
                                       THEN call.manual_geometry
                                       ELSE versions[from].geometry,
                 !.resolved_properties = IF call.resolution_strategy = "MANUAL"
                                         THEN call.manual_properties
                                         ELSE versions[from].properties]

\* C26: resolve_conflict with SOURCE, with TARGET, or with MANUAL and both
\* manual values completes without error and leaves the stored conflict
\* resolved, with the strategy, the resolver and the resolved geometry and
\* properties of the call.
C26_ResolveStoresResolution ==
    [][\A c \in DOMAIN conflicts :
          (result'.op = "resolve_conflict" /\ result'.a = c /\ Accepted(result'.n))
          => /\ result'.ok
             /\ conflicts'[c] = Resolved(conflicts[c], result'.n, result'.user)]_vars

\* C27: resolve_conflict with MANUAL and a missing manual value, or with a
\* strategy other than SOURCE, TARGET and MANUAL, fails with an error and
\* leaves the conflict as it was.
C27_RefusedResolveChangesNothing ==
    [][\A c \in DOMAIN conflicts :
          (result'.op = "resolve_conflict" /\ result'.a = c /\ ~Accepted(result'.n))
          => /\ ~result'.ok /\ result'.err = "ValueError"
             /\ conflicts' = conflicts]_vars

\* A MANUAL call without its geometry was refused, and so was a call with an
\* unknown strategy.
C27_Witness ==
    /\ result.op = "resolve_conflict" /\ ~result.ok
    /\ \/ /\ result.n.resolution_strategy = "MANUAL"
          /\ result.n.manual_geometry = NoValue /\ result.n.manual_properties # NoValue
       \/ result.n.resolution_strategy = "THEIRS"
    /\ ~conflicts[result.a].resolved

\* C28: resolve_conflict on a conflict that is already resolved is accepted,
\* and the stored strategy, geometry, properties and resolver are those of
\* this latest call.
C28_ResolveAgainOverwrites ==
    [][\A c \in DOMAIN conflicts :
          (/\ conflicts[c].resolved
           /\ result'.op = "resolve_conflict" /\ result'.a = c /\ Accepted(result'.n))
          => /\ result'.ok
             /\ conflicts'[c].resolution_strategy = result'.n.resolution_strategy
             /\ conflicts'[c].resolved_by = result'.user
             /\ conflicts'[c].resolved_geometry
                = Resolved(conflicts[c], result'.n, result'.user).resolved_geometry
             /\ conflicts'[c].resolved_properties
                = Resolved(conflicts[c], result'.n, result'.user).resolved_properties]_vars

(***************************************************************************)
(* Specification of the history endpoint, on tables that hold feature 1 in *)
(* master and in the edit branch.                                          *)
(***************************************************************************)
\* FeatureVersion.objects.filter(feature_id=f).order_by('version'): the rows
\* in one of the orders the database may return them in.
history(vs, f) ==
    LET rows == {i \in DOMAIN vs : vs[i].feature_id = f}
    IN {h \in [1..Cardinality(rows) -> rows] :
           /\ \A i, j \in DOMAIN h : i # j => h[i] # h[j]
           /\ \A i, j \in DOMAIN h : i < j => vs[h[i]].version <= vs[h[j]].version}

\* GET /features/history/?feature_id=f&branch_id=b : f = 0 stands for a
\* request without feature_id; the action reads no other parameter.
History(u, b, f) ==
    /\ IF f = 0
       THEN result' = Result("history", u, f, b, FALSE, "feature_id parameter required", <<>>)
       ELSE \E h \in history(versions, f) :
                result' = Result("history", u, f, b, TRUE, NoValue, h)
    /\ UNCHANGED <<branches, versions, mergeRequests, conflicts, auditLog, nextFeatureId,
                   pc, txn, userRoles>>

InitHistory == InitDetector

NextHistory ==
    \E u \in Users, b \in DOMAIN branches, f \in 0..MaxFeatures : History(u, b, f)

SpecHistory == InitHistory /\ [][NextHistory]_vars

\* C29: the history of a feature in a branch returns exactly the versions
\* stored for that branch and feature, none of another branch, in strictly
\* ascending version order.
C29_HistoryOfOneBranch ==
    [][(result'.op = "history" /\ result'.ok)
       => LET h == result'.n
          IN /\ {h[i] : i \in DOMAIN h} = RowsOfFeature(versions, result'.b, result'.a)
             /\ \A i, j \in DOMAIN h : i < j => versions[h[i]].version < versions[h[j]].version]_vars

\* C30: every stored branch that has a parent belongs to the layer of its
\* parent: a creation naming a parent of another layer stores no branch.
C30_ParentInSameLayer ==
    \A b \in DOMAIN branches :
        branches[b].parent_branch # NoBranch
        => branches[b].layer = branches[branches[b].parent_branch].layer

(***************************************************************************)
(* Specification of branch deletion: the soft-delete action and the update *)
(* of a branch, by its creator and by others, while the administrator      *)
(* grants and withdraws ed's role and puts branches into a group.          *)
(***************************************************************************)
\* PermissionManager.can_delete_branch.
can_delete_branch(u, br) ==
    IF is_master(br) THEN FALSE
    ELSE IF is_admin(u) THEN TRUE
    ELSE IF br.created_by = u
         THEN IF br.group # NoGroup
              THEN \E r \in userRoles : /\ r.user = u /\ r.group = br.group
                                        /\ r.can_manage_branches
              ELSE TRUE
    ELSE FALSE

\* The change page of EditBranchAdmin: a superuser puts the branch into a
\* group, or into none.
BranchAdminChange(u, b, group) ==
    /\ b \in DOMAIN branches
    /\ is_superuser(u)
    /\ branches' = [branches EXCEPT ![b].group = group]
    /\ result' = Result("admin_change_branch", u, b, NoBranch, TRUE, NoValue, 0)
    /\ UNCHANGED <<versions, mergeRequests, conflicts, auditLog, nextFeatureId, pc, txn,
                   userRoles>>

InitBranchDelete ==
    /\ branches = InitBranches
    /\ versions = <<>>
    /\ mergeRequests = <<>>
    /\ conflicts = <<>>
    /\ auditLog = SetToBag({AuditLog("ed", "CREATE_BRANCH", "branch", 2)})
    /\ nextFeatureId = 1
    /\ result = Result("create_branch", "ed", 2, NoBranch, TRUE, NoValue, 0)
    /\ pc = <<>>
    /\ txn = <<>>
    /\ userRoles = UserRoles

NextBranchDelete ==
    \/ \E mb \in BOOLEAN : AssignRole("root", "ed", "g1", "editor", None, mb)
    \/ RemoveRole("root", "ed", "g1", "editor")
    \/ \E b \in DOMAIN branches, g \in {NoGroup, "g1"} : BranchAdminChange("root", b, g)
    \/ \E u \in Users, b \in DOMAIN branches : BranchSoftDelete(u, b)
    \/ \E u \in Reviewers, b \in DOMAIN branches, st \in {"active", "deleted"} :
          BranchUpdate(u, b, branches[b].name, branches[b].layer,
                       branches[b].parent_branch, st)

SpecBranchDelete == InitBranchDelete /\ [][NextBranchDelete]_vars

\* C31: the status of a branch that is not a master is set to deleted only
\* by a request of a user who may delete it: an admin, or its creator
\* holding can_manage_branches.
C31_OnlyManagersDelete ==
    [][\A b \in DOMAIN branches :
          (/\ ~is_master(branches[b])
           /\ branches[b].status # "deleted" /\ branches'[b].status = "deleted")
          => can_delete_branch(result'.user, branches[b])]_vars

\* The number of events in the audit trail.
AuditEvents(log) == BagCardinality(log)

\* C32: every operation that succeeds in changing stored branches, versions,
\* merge requests or conflicts appends exactly one audit event, and every
\* event of the trail is kept as it is.
C32_OneEventPerChange ==
    [][/\ auditLog \sqsubseteq auditLog'
       /\ (result'.ok /\ <<branches, versions, mergeRequests, conflicts>>'
                         # <<branches, versions, mergeRequests, conflicts>>)
          => AuditEvents(auditLog') = AuditEvents(auditLog) + 1]_vars

\* C33: assign_role and remove_role called by a user who is not an admin
\* fail with a permission error and leave the stored roles as they were;
\* assign_role with a role outside admin, validator and editor fails and
\* stores nothing.
C33_RoleCallsRefused ==
    [][/\ (result'.op \in {"assign_role", "remove_role"} /\ ~is_admin(result'.user))
          => /\ ~result'.ok /\ result'.err = "PermissionError"
             /\ userRoles' = userRoles
       /\ (result'.op = "assign_role" /\ result'.a[3] \notin ROLE_CHOICES)
          => ~result'.ok /\ userRoles' = userRoles]_vars

\* ed, holding no admin role, was refused an assign_role of the admin role.
C33_Witness ==
    /\ result.op = "assign_role" /\ result.user = "ed" /\ result.a[3] = "admin"
    /\ result.err = "PermissionError"
    /\ ~is_admin("ed")

\* C34: a merge_branches(source, target) that completes leaves every stored
\* row as it was, the rows of the source and of the target included; the
\* rows it adds all belong to the target, their number is the merged count
\* it returns, and no feature gets more than one.
C34_MergeWritesTargetOnly ==
    [][(result'.op = "merge" /\ result'.ok)
       => /\ SubSeq(versions', 1, Len(versions)) = versions
          /\ \A i \in NewRows(versions, versions') : versions'[i].branch = result'.b
          /\ \A b \in DOMAIN branches \ {result'.b} :
                 RowsOf(versions', b) = RowsOf(versions, b)
          /\ Len(versions') - Len(versions) = result'.n
          /\ \A f \in 1..MaxFeatures :
                 Cardinality(NewRowsOf(versions, versions', f)) <= 1]_vars

\* A merge from one branch into another has returned 1 and the table's last
\* row is the target's new row, while the source holds rows of that feature.
C34_Witness ==
    /\ result.op = "merge" /\ result.ok /\ result.a # result.b /\ result.n = 1
    /\ versions[Len(versions)].branch = result.b
    /\ versions[Len(versions)].operation = "MERGE"
    /\ RowsOfFeature(versions, result.a, versions[Len(versions)].feature_id) # {}
    /\ Len(versions) = MaxRows

\* C35: after a merge_branches(source, target) that completes, for every
\* feature whose latest source version is not deleted the target's latest
\* version of that feature has the geometry and the properties of the
\* source's latest version.
C35_TargetCarriesSourceContent ==
    [][(result'.op = "merge" /\ result'.ok)
       => \E sf \in get_latest_features(versions, result'.a) :
            \A f \in DOMAIN sf :
                ~versions[sf[f]].is_deleted
                => \E k \in FirstByVersionDesc(versions', result'.b, f) :
                       /\ geometry_equals(versions'[k].geometry, versions[sf[f]].geometry)
                       /\ versions'[k].properties = versions[sf[f]].properties]_vars

\* A merge has replaced content of the target: the row it appended holds
\* other properties than the target's row one version below.
C35_Witness ==
    /\ result.op = "merge" /\ result.ok /\ result.a # result.b /\ result.n = 1
    /\ LET r == versions[Len(versions)]
       IN /\ r.operation = "MERGE" /\ r.branch = result.b
          /\ \E k \in RowsOfFeature(versions, result.b, r.feature_id) :
                 /\ versions[k].version = r.version - 1
                 /\ versions[k].properties # r.properties
          /\ \E k \in FirstByVersionDesc(versions, result.a, r.feature_id) :
                 versions[k].properties = r.properties

(***************************************************************************)
(* Specification of an approval after resolutions: the conflicts of the    *)
(* merge request from the edit branch into master are given a strategy and *)
(* a resolved content on the change page of the admin site (the resolver   *)
(* service stores none), then the request is approved.                     *)
(***************************************************************************)
\* The change page of MergeConflictAdmin with the resolution fields filled
\* in: resolved, resolution_strategy, resolved_geometry, resolved_properties
\* and resolved_by are editable fields of it.
ConflictAdminResolve(u, c, strategy, geometry, properties) ==
    /\ c \in DOMAIN conflicts
    /\ is_superuser(u)
    /\ conflicts' = [conflicts EXCEPT ![c].resolved = TRUE,
                                      ![c].resolution_strategy = strategy,
                                      ![c].resolved_geometry = geometry,
                                      ![c].resolved_properties = properties,
                                      ![c].resolved_by = u]
    /\ result' = Result("admin_resolve_conflict", u, c, NoBranch, TRUE, NoValue, 0)
    /\ UNCHANGED <<branches, versions, mergeRequests, auditLog, nextFeatureId, pc, txn,
                   userRoles>>

\* The content the admin enters for a strategy: the source's or the target's
\* version, or one of the administrator's own.
ResolutionContents(c, strategy) ==
    IF strategy = "SOURCE"
    THEN {<<versions[c.source_version].geometry, versions[c.source_version].properties>>}
    ELSE IF strategy = "TARGET"
    THEN {<<versions[c.target_version].geometry, versions[c.target_version].properties>>}
    ELSE {<<"line_ba", "p1">>, <<"point_c", "p2">>}

InitApproval == InitResolver

NextApproval ==
    \/ \E c \in DOMAIN conflicts, strategy \in {"SOURCE", "TARGET", "MANUAL"} :
          \E e \in ResolutionContents(conflicts[c], strategy) :
              ConflictAdminResolve("root", c, strategy, e[1], e[2])
    \/ \E c \in DOMAIN conflicts, strategy \in {"SOURCE", "TARGET"} :
          ResolveConflict("val", c, strategy, NoValue, NoValue)
    \/ \E u \in Reviewers, m \in DOMAIN mergeRequests : Approve(u, m, "none")

SpecApproval == InitApproval /\ [][NextApproval]_vars

\* C36: the ledger after an approve that succeeds is the one merge_branches
\* computes from the source and target ledgers alone, whatever strategy and
\* content the conflicts of the merge request were resolved with: each row
\* it adds carries the content of the source's latest version.
C36_ApproveIgnoresResolutions ==
    [][\A m \in DOMAIN mergeRequests :
          (result'.op = "approve" /\ result'.a = m /\ result'.ok)
          => LET sb == mergeRequests[m].source_branch
                 tb == mergeRequests[m].target_branch
             IN /\ \E sf \in get_latest_features(versions, sb),
                      tf \in get_latest_features(versions, tb) :
                       versions' = MergeLoop(versions, sf, tf, tb, 1, MaxFeatures)
                /\ \A i \in NewRows(versions, versions') :
                       \E k \in FirstByVersionDesc(versions, sb, versions'[i].feature_id) :
                           /\ versions'[i].geometry = versions[k].geometry
                           /\ versions'[i].properties = versions[k].properties]_vars

\* An approve has written a version although the conflict of that feature
\* was resolved with TARGET or MANUAL to a content other than the row's.
C36_Witness ==
    /\ result.op = "approve" /\ result.ok /\ result.n = 1
    /\ \E c \in BoundConflicts(conflicts, result.a) :
           /\ conflicts[c].resolution_strategy \in {"TARGET", "MANUAL"}
           /\ conflicts[c].feature_id = Last(versions).feature_id
           /\ \/ conflicts[c].resolved_properties # Last(versions).properties
              \/ ~geometry_equals(conflicts[c].resolved_geometry, Last(versions).geometry)

(***************************************************************************)
(* Specification of an approval after later edits: a merge request is      *)
(* created, features are updated in either branch, and the request is      *)
(* approved.                                                               *)
(***************************************************************************)
InitLateEdits == InitWorkflow

NextLateEdits ==
    \/ \E sb \in DOMAIN branches, tb \in DOMAIN branches : MergeRequestCreate("ed", sb, tb)
    \/ \E pk \in DOMAIN versions, e \in UpdateBodies :
          FeatureUpdate("ed", pk, FALSE, versions[pk].branch, e[1], e[2], FALSE)
    \/ \E c \in DOMAIN conflicts : ConflictAdminChange("root", c, TRUE)
    \/ \E u \in Reviewers, m \in DOMAIN mergeRequests : Approve(u, m, "none")

SpecLateEdits == InitLateEdits /\ [][NextLateEdits]_vars

\* C37: when an approve succeeds, every conflict the detector reports
\* between the source and the target branch at that moment has a resolved
\* conflict of the same feature bound to the merge request.
C37_ApproveCoversCurrentConflicts ==
    [][\A m \in DOMAIN mergeRequests :
          (result'.op = "approve" /\ result'.a = m /\ result'.ok)
          => \A sf \in get_latest_features(versions, mergeRequests[m].source_branch),
                tf \in get_latest_features(versions, mergeRequests[m].target_branch) :
                LET found == detect_conflicts(versions, sf, tf)
                IN \A i \in DOMAIN found :
                       \E c \in BoundConflicts(conflicts, m) :
                           /\ conflicts[c].resolved
                           /\ conflicts[c].feature_id = found[i].feature_id]_vars

\* C38: a master branch (no parent, name master) has status active in every
\* state: no approval, one whose source branch is the master included, and
\* no other operation changes it.
C38_MasterStaysActive ==
    \A b \in DOMAIN branches : is_master(branches[b]) => branches[b].status = "active"

\* C39: an approve or a reject by an actor who fails the check of the view
\* set (no superuser, no validator or admin profile role) is refused and
\* leaves the merge requests, the ledger, the branches, the conflicts and
\* the audit trail as they were.
C39_RefusedReviewChangesNothing ==
    [][(/\ result'.op \in {"approve", "reject"}
        /\ ~is_superuser(result'.user)
        /\ profile_role(result'.user) \notin {"validator", "admin"})
       => /\ ~result'.ok
          /\ UNCHANGED <<mergeRequests, versions, branches, conflicts, auditLog>>]_vars

\* ed was refused the approve of a pending merge request without unresolved
\* conflicts, which a reviewer's approve would have merged.
C39_Witness ==
    /\ result.op = "approve" /\ result.user = "ed" /\ result.err = "forbidden"
    /\ result.a \in DOMAIN mergeRequests
    /\ mergeRequests[result.a].status = "pending"
    /\ ~HasUnresolvedConflict(result.a)
    /\ branches[mergeRequests[result.a].source_branch].status = "active"

====
